---- MODULE Spec2Model ----
(***************************************************************************)
(* Agent productivity tracker: the KPI engine of compute.py (compute_kpis  *)
(* and its helpers) as driven by the script app.py.                        *)
(*                                                                         *)
(* Time is measured in ticks.  A timestamp is the integer pandas keeps for *)
(* it (its int64 view), scaled down: one tick stands for a fixed number of *)
(* nanoseconds, a calendar day is DayLen ticks, and the machine word is    *)
(* WordBits bits wide instead of 64.  A quantity "in seconds" is kept in   *)
(* units of 1/Scale tick, so that the float division of a segment among k  *)
(* active events is exact rational arithmetic (rounding error of IEEE      *)
(* doubles is not modelled).                                               *)
(***************************************************************************)
EXTENDS Integers, Sequences, FiniteSets, TLC

VARIABLES
    pc,            \* position of the script app.py / of compute_kpis
    cfg_file,      \* config/app_config.yaml on disk: "ok", "missing", "malformed"
    mapping_file,  \* config/category_mapping.json on disk: [status, table]
    sidebar,       \* the values the user left in the sidebar widgets
    df_tickets,    \* raw ticket rows (pd.read_csv)
    df_calls,      \* raw call rows
    df_schedule,   \* [uploaded, has_team, rows]: the optional schedule upload
    app_cfg,       \* result of load_app_config
    settings,      \* the DefaultSettings object
    mapping,       \* result of load_category_mapping
    events,        \* compute_kpis: events after concat and dropna
    schedule,      \* compute_kpis: expanded ShiftWindow table
    merged,        \* compute_kpis: events left-joined to windows, clipped
    adjusted,      \* compute_kpis: result of overlap_adjust
    daily,         \* compute_kpis: DailyAgentSummary rows
    heatmap        \* compute_kpis: productive seconds by (date, hour, team)

vars == <<pc, cfg_file, mapping_file, sidebar, df_tickets, df_calls, df_schedule,
          app_cfg, settings, mapping, events, schedule, merged, adjusted, daily,
          heatmap>>

----------------------------------------------------------------------------
(* Bounds of the model *)

MaxTick == 5
DayLen == 3
MaxEvents == 3
MaxRows == 2
WordBits == 5

----------------------------------------------------------------------------
(* Numbers *)

RECURSIVE Pow2(_)
Pow2(n) == IF n = 0 THEN 1 ELSE 2 * Pow2(n - 1)

RECURSIVE Gcd(_, _)
Gcd(a, b) == IF b = 0 THEN a ELSE Gcd(b, a % b)

Lcm(a, b) == (a * b) \div Gcd(a, b)

RECURSIVE LcmUpTo(_)
LcmUpTo(n) == IF n <= 1 THEN 1 ELSE Lcm(n, LcmUpTo(n - 1))

\* One "second" of the model is 1/Scale tick: every share seg_len / k with
\* 1 <= k <= MaxEvents (tickets and calls together) is an integer of it.
Scale == LcmUpTo(IF MaxEvents >= MaxRows THEN MaxEvents ELSE MaxRows)

Max(a, b) == IF a >= b THEN a ELSE b
Min(a, b) == IF a <= b THEN a ELSE b

\* The least value of the signed machine word: what .view("int64") gives for
\* a missing timestamp (NaT).
Int64Min == 0 - Pow2(WordBits - 1)
NaT == Int64Min

\* Signed wrap-around of numpy's fixed-width integer arithmetic.
Wrap(x) == ((x - Int64Min) % Pow2(WordBits)) + Int64Min

Ticks == 0 .. MaxTick
TimesOfDay == 0 .. (DayLen - 1)
Dates == 0 .. (MaxTick \div DayLen)

\* Series.dt.date
DateOf(ts) == ts \div DayLen

RECURSIVE SumSeq(_)
SumSeq(s) == IF s = <<>> THEN 0 ELSE Head(s) + SumSeq(Tail(s))

RECURSIVE Flatten(_)
Flatten(ss) == IF ss = <<>> THEN <<>> ELSE Head(ss) \o Flatten(Tail(ss))

Range(s) == {s[i] : i \in DOMAIN s}

\* Series.unique(): the distinct values in order of first appearance
RECURSIVE Unique(_)
Unique(s) ==
    IF s = <<>> THEN <<>>
    ELSE LET r == Unique(SubSeq(s, 1, Len(s) - 1))
             x == s[Len(s)]
         IN  IF x \in Range(r) THEN r ELSE Append(r, x)

----------------------------------------------------------------------------
(* Names *)

AgentOrder == <<"A1", "A2">>     \* agents, in sort order
Agents == Range(AgentOrder)
NoTeam == "None"                 \* a missing team (None / NaN)
Teams == {"T1", "T2"}
Rules == {"split_time", "count_full"}
Unparseable == 0 - 1             \* a timestamp cell pd.to_datetime cannot parse

----------------------------------------------------------------------------
(* Strings: a string is the tuple of its characters *)

UpperToLower ==
    [c \in {"B", "U", "G", "O", "I", "L", "N"} |->
        CASE c = "B" -> "b" [] c = "U" -> "u" [] c = "G" -> "g" [] c = "O" -> "o"
          [] c = "I" -> "i" [] c = "L" -> "l" [] c = "N" -> "n"]

\* str.lower()
Lower(s) == [i \in DOMAIN s |-> IF s[i] \in DOMAIN UpperToLower THEN UpperToLower[s[i]] ELSE s[i]]

Other == <<"O", "t", "h", "e", "r">>
NoCategory == <<>>               \* a missing category cell (NaN)

----------------------------------------------------------------------------
(* compute.py: loaders *)

\* load_category_mapping: open() and json.load() raise on a missing or
\* malformed file; nothing catches the exception here.
LoadCategoryMappingRaises(file) == file.status # "ok"
load_category_mapping(file) == file.table

\* load_app_config: open() and yaml.safe_load() raise likewise.
LoadAppConfigRaises(file) == file # "ok"

----------------------------------------------------------------------------
(* compute.py: apply_category_mapping *)

\* The mapping is the sequence of the JSON object's items,
\* [canonical, variants]; keys() are the canonical names.
MappingKeys(m) == {m[i].canonical : i \in DOMAIN m}

\* reverse_map as the sequence of its assignments <<v.lower(), canonical>>,
\* in the order the two loops make them; a later assignment overwrites.
ReverseMap(m) ==
    Flatten([i \in DOMAIN m |->
        [j \in DOMAIN m[i].variants |-> <<Lower(m[i].variants[j]), m[i].canonical>>]])

RECURSIVE DictGet(_, _, _)
\* dict.get(key, default) on a dict given by its assignments
DictGet(assigns, key, default) ==
    IF assigns = <<>> THEN default
    ELSE LET last == assigns[Len(assigns)]
         IN  IF last[1] = key THEN last[2]
             ELSE DictGet(SubSeq(assigns, 1, Len(assigns) - 1), key, default)

MapFnDefaultRaw(x, m) == x
MapFnDefault(x, m) == IF x \in MappingKeys(m) THEN x ELSE Other

map_fn(x, m) ==
    IF x = NoCategory THEN Other
    ELSE DictGet(ReverseMap(m), Lower(x), MapFnDefault(x, m))

apply_category_mapping(df, m) ==
    [i \in DOMAIN df |->
        [agent |-> df[i].agent, start_ts |-> df[i].start_ts, end_ts |-> df[i].end_ts,
         category |-> df[i].category, team |-> df[i].team,
         category_mapped |-> map_fn(df[i].category, m)]]

----------------------------------------------------------------------------
(* compute.py: parse_datetimes, normalize_tickets, normalize_calls *)

\* pd.to_datetime(errors="coerce"): an unparseable cell becomes NaT
ToDatetime(cell) == IF cell \in Ticks THEN cell ELSE NaT

\* The pre-clip duration_seconds column both normalizers compute is replaced
\* by the clipped duration before anything reads it, and is left out.
parse_datetimes(df) ==
    [i \in DOMAIN df |->
        [agent |-> df[i].agent, start_ts |-> ToDatetime(df[i].start_ts),
         end_ts |-> ToDatetime(df[i].end_ts), category |-> df[i].category,
         team |-> df[i].team]]

normalize_tickets(df) == parse_datetimes(df)
normalize_calls(df) == parse_datetimes(df)

\* compute_kpis, lines 128-150: tag the source, concatenate, drop the rows
\* with a missing agent or timestamp.
TagSource(df, src) ==
    [i \in DOMAIN df |->
        [agent |-> df[i].agent, start_ts |-> df[i].start_ts, end_ts |-> df[i].end_ts,
         category_mapped |-> df[i].category_mapped, source |-> src, team |-> df[i].team]]

NoAgent == "NaN"

DropNa(evs) ==
    LET Keep(e) == e.agent # NoAgent /\ e.start_ts # NaT /\ e.end_ts # NaT
    IN  SelectSeq(evs, Keep)

BuildEventsOf(tickets, calls, m) ==
    DropNa(TagSource(apply_category_mapping(normalize_tickets(tickets), m), "Ticket")
           \o TagSource(apply_category_mapping(normalize_calls(calls), m), "Call"))

----------------------------------------------------------------------------
(* compute.py: the schedule *)

\* team_series[agents == a].iloc[0]: the team of the agent's first event
RECURSIVE FirstTeam(_, _)
FirstTeam(evs, a) ==
    IF Head(evs).agent = a THEN Head(evs).team ELSE FirstTeam(Tail(evs), a)

\* a schedule with one row for every (agent, date) pair some event has
build_default_schedule_pairs(evs, st) ==
    LET pairs == Unique([i \in DOMAIN evs |-> <<evs[i].agent, DateOf(evs[i].start_ts)>>])
    IN  [i \in DOMAIN pairs |->
            [agent |-> pairs[i][1], date |-> pairs[i][2],
             shift_start |-> st.default_shift_start,
             shift_end |-> st.default_shift_end,
             team |-> FirstTeam(evs, pairs[i][1])]]

\* build_default_schedule: one row for every agent of agents.unique() and
\* every date of dates.unique(), the two loops nested.
build_default_schedule(evs, st) ==
    LET agents == Unique([i \in DOMAIN evs |-> evs[i].agent])
        dates  == Unique([i \in DOMAIN evs |-> DateOf(evs[i].start_ts)])
    IN  Flatten([i \in DOMAIN agents |->
            [j \in DOMAIN dates |->
                [agent |-> agents[i], date |-> dates[j],
                 shift_start |-> st.default_shift_start,
                 shift_end |-> st.default_shift_end,
                 team |-> FirstTeam(evs, agents[i])]]])

\* compute_kpis, lines 153-157: the uploaded schedule, or the default one
\* when none was uploaded or the upload has no rows.
UsesDefaultSchedule(up) == ~up.uploaded \/ up.rows = <<>>

ScheduleRows(up, evs, st) ==
    IF UsesDefaultSchedule(up)
    THEN [has_team |-> TRUE, rows |-> build_default_schedule(evs, st)]
    ELSE [has_team |-> up.has_team, rows |-> up.rows]

\* normalize_schedule reads the date column: a default schedule built from
\* no event at all is a DataFrame without columns, and the read raises.
NormalizeScheduleRaises(up, evs) == UsesDefaultSchedule(up) /\ evs = <<>>

\* compute_kpis, lines 160-171: combine each row's date and times of day
\* into the window's two timestamps.
ExpandSchedule(sr) ==
    [i \in DOMAIN sr.rows |->
        [agent |-> sr.rows[i].agent, date |-> sr.rows[i].date,
         shift_start |-> sr.rows[i].date * DayLen + sr.rows[i].shift_start,
         shift_end |-> sr.rows[i].date * DayLen + sr.rows[i].shift_end,
         team |-> IF sr.has_team THEN sr.rows[i].team ELSE NoTeam]]

----------------------------------------------------------------------------
(* compute.py: clipping, compute_kpis lines 173-188 *)

\* clipped_duration of one merged row: max and min on the int64 views, the
\* difference in the machine word, then / 1e9 and clip(lower=0).
ClipLowerNone(x) == x
ClipLower(x) == Max(x, 0)

ClippedDuration(start_ts, end_ts, sched_start, sched_end) ==
    LET clipped_start == Max(start_ts, sched_start)
        clipped_end   == Min(end_ts, sched_end)
    IN  ClipLower(Wrap(clipped_end - clipped_start)) * Scale

MergedRow(e, ss, se) ==
    [agent |-> e.agent, date |-> DateOf(e.start_ts), start_ts |-> e.start_ts,
     end_ts |-> e.end_ts, category_mapped |-> e.category_mapped,
     source |-> e.source, team |-> e.team,
     sched_start |-> ss, sched_end |-> se,
     duration_seconds |-> ClippedDuration(e.start_ts, e.end_ts, ss, se)]

\* events.merge(schedule, on=["agent","date"], how="left"): one row per
\* matching window, or one row with missing (NaT) bounds when none matches.
MergeLeft(evs, sched) ==
    Flatten([i \in DOMAIN evs |->
        LET e == evs[i]
            Match(w) == w.agent = e.agent /\ w.date = DateOf(e.start_ts)
            ws == SelectSeq(sched, Match)
        IN  IF ws = <<>> THEN << MergedRow(e, NaT, NaT) >>
            ELSE [j \in DOMAIN ws |-> MergedRow(e, ws[j].shift_start, ws[j].shift_end)]])

----------------------------------------------------------------------------
(* compute.py: overlap_adjust *)

\* sort_values("start_ts"): insertion of each row after the rows that do not
\* start later (rows with equal starts keep their order).
RECURSIVE SortByStart(_)
SortByStart(g) ==
    IF g = <<>> THEN <<>>
    ELSE LET r  == SortByStart(SubSeq(g, 1, Len(g) - 1))
             x  == g[Len(g)]
             NotLater(y) == y.start_ts <= x.start_ts
             Later(y) == y.start_ts > x.start_ts
         IN  SelectSeq(r, NotLater) \o <<x>> \o SelectSeq(r, Later)

\* events.groupby("agent"): the groups in key order, each sorted by start
GroupOf(evs, a) ==
    LET Mine(e) == e.agent = a
    IN  SortByStart(SelectSeq(evs, Mine))

\* sorted(set(starts + ends))
RECURSIVE SortedSeqOf(_)
SortedSeqOf(S) ==
    IF S = {} THEN <<>>
    ELSE LET m == CHOOSE x \in S : \A y \in S : x <= y
         IN  <<m>> \o SortedSeqOf(S \ {m})

Boundaries(g) ==
    SortedSeqOf({g[i].start_ts : i \in DOMAIN g} \cup {g[i].end_ts : i \in DOMAIN g})

\* g[(g["start_ts"] < seg_end) & (g["end_ts"] > seg_start)]
Active(e, seg_start, seg_end) == e.start_ts < seg_end /\ e.end_ts > seg_start

ActiveSet(g, seg_start, seg_end) ==
    {i \in DOMAIN g : Active(g[i], seg_start, seg_end)}

\* what the loop body adds to alloc[idx] for the segment boundaries[i],
\* boundaries[i+1]
ShareUndivided(g, idx, seg_start, seg_end) ==
    LET active == ActiveSet(g, seg_start, seg_end)
        seg_len == (seg_end - seg_start) * Scale
    IN  IF seg_len > 0 /\ Cardinality(active) > 0 /\ idx \in active
        THEN seg_len ELSE 0

Share(g, idx, seg_start, seg_end) ==
    LET active == ActiveSet(g, seg_start, seg_end)
        seg_len == (seg_end - seg_start) * Scale
    IN  IF seg_len > 0 /\ Cardinality(active) > 0 /\ idx \in active
        THEN seg_len \div Cardinality(active) ELSE 0

Alloc(g, idx) ==
    LET b == Boundaries(g)
    IN  SumSeq([i \in 1 .. (Len(b) - 1) |-> Share(g, idx, b[i], b[i + 1])])

WithProductive(e, p) ==
    [agent |-> e.agent, date |-> e.date, start_ts |-> e.start_ts, end_ts |-> e.end_ts,
     duration_seconds |-> e.duration_seconds, category_mapped |-> e.category_mapped,
     source |-> e.source, team |-> e.team, productive_seconds |-> p]

AdjustGroup(g, rule) ==
    IF rule = "count_full"
    THEN [i \in DOMAIN g |-> WithProductive(g[i], Max(g[i].duration_seconds, 0))]
    ELSE [i \in DOMAIN g |-> WithProductive(g[i], Alloc(g, i))]

\* the columns of merged that compute_kpis passes on (line 187)
ClippedEvents(m) ==
    [i \in DOMAIN m |->
        [agent |-> m[i].agent, date |-> m[i].date, start_ts |-> m[i].start_ts,
         end_ts |-> m[i].end_ts, duration_seconds |-> m[i].duration_seconds,
         category_mapped |-> m[i].category_mapped, source |-> m[i].source,
         team |-> m[i].team]]

\* pd.concat(out) raises when there is no group at all
OverlapAdjustRaises(evs) == evs = <<>>

overlap_adjust(evs, rule) ==
    LET Present(a) == \E i \in DOMAIN evs : evs[i].agent = a
        keys == SelectSeq(AgentOrder, Present)
    IN  Flatten([k \in DOMAIN keys |-> AdjustGroup(GroupOf(evs, keys[k]), rule)])

----------------------------------------------------------------------------
(* compute.py: the daily summary, compute_kpis lines 191-202 *)

NaN == [nan |-> TRUE, val |-> 0]
Num(v) == [nan |-> FALSE, val |-> v]

\* (daily["scheduled_seconds"] - daily["productive_seconds"]).clip(lower=0)
IdleSeconds(sched, prod) ==
    IF sched.nan THEN NaN ELSE Num(Max(sched.val - prod, 0))

\* np.where(scheduled > 0, 100 * productive / scheduled, np.nan), the
\* quotient as a fraction in lowest terms
UtilizationZeroOnNoSchedule(sched, prod) ==
    IF ~sched.nan /\ sched.val > 0
    THEN LET g == Gcd(100 * prod, sched.val)
         IN  [nan |-> FALSE, num |-> (100 * prod) \div g, den |-> sched.val \div g]
    ELSE [nan |-> FALSE, num |-> 0, den |-> 1]

UtilizationPct(sched, prod) ==
    IF ~sched.nan /\ sched.val > 0
    THEN LET g == Gcd(100 * prod, sched.val)
         IN  [nan |-> FALSE, num |-> (100 * prod) \div g, den |-> sched.val \div g]
    ELSE [nan |-> TRUE, num |-> 0, den |-> 1]

DailyRow(a, d, t, prod, sched) ==
    [agent |-> a, date |-> d, team |-> t, productive_seconds |-> prod,
     scheduled_seconds |-> sched, idle_seconds |-> IdleSeconds(sched, prod),
     utilization_pct |-> UtilizationPct(sched, prod)]

\* adjusted.groupby(["agent","date","team"], dropna=False).sum()
GroupKeys(adj) == {<<adj[i].agent, adj[i].date, adj[i].team>> : i \in DOMAIN adj}

ProductiveOfKey(adj, key) ==
    SumSeq([i \in DOMAIN adj |->
        IF <<adj[i].agent, adj[i].date, adj[i].team>> = key
        THEN adj[i].productive_seconds ELSE 0])

\* the join keys of daily_prod.merge(sched_seconds, on=[...], how="left")
DailyJoin(w, key) == w.agent = key[1] /\ w.date = key[2] /\ w.team = key[3]

\* scheduled_seconds of a window: (shift_end - shift_start).dt.total_seconds()
ScheduledSeconds(w) == (w.shift_end - w.shift_start) * Scale

DailySummary(adj, sched) ==
    UNION {
        LET ws == {i \in DOMAIN sched : DailyJoin(sched[i], key)}
            prod == ProductiveOfKey(adj, key)
        IN  IF ws = {} THEN {DailyRow(key[1], key[2], key[3], prod, NaN)}
            ELSE {DailyRow(key[1], key[2], key[3], prod, Num(ScheduledSeconds(sched[i]))) : i \in ws}
        : key \in GroupKeys(adj)}

\* adjusted["start_ts"].dt.hour: the hour of day of the event's start_ts
\* column; a timestamp is a whole tick, so the hour is the tick of the day
HourOf(ts) == ts % DayLen

\* adjusted.groupby(["date","hour","team"], dropna=False)
HeatmapKeys(adj) ==
    {<<adj[i].date, HourOf(adj[i].start_ts), adj[i].team>> : i \in DOMAIN adj}

HeatmapSecondsOfKey(adj, key) ==
    SumSeq([i \in DOMAIN adj |->
        IF <<adj[i].date, HourOf(adj[i].start_ts), adj[i].team>> = key
        THEN adj[i].productive_seconds ELSE 0])

\* ...["productive_seconds"].sum().reset_index()
Heatmap(adj) ==
    {[date |-> key[1], hour |-> key[2], team |-> key[3],
      productive_seconds |-> HeatmapSecondsOfKey(adj, key)] : key \in HeatmapKeys(adj)}

----------------------------------------------------------------------------
(* app.py and compute_kpis as a sequence of steps *)

\* settings = DefaultSettings(): the default shift 09:00-18:00 as times of
\* day in ticks (tick 0 is midnight, the shift is the day's second tick)
DefaultShiftStart == 1
DefaultShiftEnd == 2

DefaultSettings ==
    [default_shift_start |-> DefaultShiftStart, default_shift_end |-> DefaultShiftEnd,
     overlap_rule |-> "split_time"]

\* The state when the script starts: the files and uploads as found, the
\* settings object as constructed, nothing computed yet.
InitWith(cfg, mf, sb, t, c, sch) ==
    /\ pc = "start"
    /\ cfg_file = cfg
    /\ mapping_file = mf
    /\ sidebar = sb
    /\ df_tickets = t
    /\ df_calls = c
    /\ df_schedule = sch
    /\ app_cfg = "unset"
    /\ settings = DefaultSettings
    /\ mapping = <<>>
    /\ events = <<>>
    /\ schedule = <<>>
    /\ merged = <<>>
    /\ adjusted = <<>>
    /\ daily = {}
    /\ heatmap = {}

\* app.py line 15: load_app_config, outside any try
LoadAppConfig ==
    /\ pc = "start"
    /\ ~LoadAppConfigRaises(cfg_file)
    /\ app_cfg' = "loaded"
    /\ pc' = "sidebar"
    /\ UNCHANGED <<cfg_file, mapping_file, sidebar, df_tickets, df_calls, df_schedule,
                   settings, mapping, events, schedule, merged, adjusted, daily, heatmap>>

\* the exception of load_app_config ends the script
LoadAppConfigFails ==
    /\ pc = "start"
    /\ LoadAppConfigRaises(cfg_file)
    /\ pc' = "crashed"
    /\ UNCHANGED <<cfg_file, mapping_file, sidebar, df_tickets, df_calls, df_schedule,
                   app_cfg, settings, mapping, events, schedule, merged, adjusted, daily, heatmap>>

\* app.py lines 25-29: the sidebar values are written into settings
SidebarSettings ==
    /\ pc = "sidebar"
    /\ settings' = [default_shift_start |-> sidebar.default_start,
                    default_shift_end |-> sidebar.default_end,
                    overlap_rule |-> sidebar.overlap_rule]
    /\ pc' = "compute"
    /\ UNCHANGED <<cfg_file, mapping_file, sidebar, df_tickets, df_calls, df_schedule,
                   app_cfg, mapping, events, schedule, merged, adjusted, daily, heatmap>>

\* compute_kpis line 124
LoadCategoryMapping ==
    /\ pc = "compute"
    /\ ~LoadCategoryMappingRaises(mapping_file)
    /\ mapping' = load_category_mapping(mapping_file)
    /\ pc' = "mapped"
    /\ UNCHANGED <<cfg_file, mapping_file, sidebar, df_tickets, df_calls, df_schedule,
                   app_cfg, settings, events, schedule, merged, adjusted, daily, heatmap>>

\* An exception inside compute_kpis is caught by app.py lines 58-60:
\* st.error, st.stop.  No table is returned.
LoadCategoryMappingFails ==
    /\ pc = "compute"
    /\ LoadCategoryMappingRaises(mapping_file)
    /\ pc' = "stopped"
    /\ UNCHANGED <<cfg_file, mapping_file, sidebar, df_tickets, df_calls, df_schedule,
                   app_cfg, settings, mapping, events, schedule, merged, adjusted, daily, heatmap>>

\* compute_kpis lines 120-150
BuildEvents ==
    /\ pc = "mapped"
    /\ events' = BuildEventsOf(df_tickets, df_calls, mapping)
    /\ pc' = "events"
    /\ UNCHANGED <<cfg_file, mapping_file, sidebar, df_tickets, df_calls, df_schedule,
                   app_cfg, settings, mapping, schedule, merged, adjusted, daily, heatmap>>

\* compute_kpis lines 152-171
ResolveSchedule ==
    /\ pc = "events"
    /\ ~NormalizeScheduleRaises(df_schedule, events)
    /\ schedule' = ExpandSchedule(ScheduleRows(df_schedule, events, settings))
    /\ pc' = "scheduled"
    /\ UNCHANGED <<cfg_file, mapping_file, sidebar, df_tickets, df_calls, df_schedule,
                   app_cfg, settings, mapping, events, merged, adjusted, daily, heatmap>>

ResolveScheduleFails ==
    /\ pc = "events"
    /\ NormalizeScheduleRaises(df_schedule, events)
    /\ pc' = "stopped"
    /\ UNCHANGED <<cfg_file, mapping_file, sidebar, df_tickets, df_calls, df_schedule,
                   app_cfg, settings, mapping, events, schedule, merged, adjusted, daily, heatmap>>

\* compute_kpis lines 173-188
ClipEvents ==
    /\ pc = "scheduled"
    /\ merged' = MergeLeft(events, schedule)
    /\ pc' = "clipped"
    /\ UNCHANGED <<cfg_file, mapping_file, sidebar, df_tickets, df_calls, df_schedule,
                   app_cfg, settings, mapping, events, schedule, adjusted, daily, heatmap>>

\* compute_kpis line 189
OverlapAdjust ==
    /\ pc = "clipped"
    /\ ~OverlapAdjustRaises(ClippedEvents(merged))
    /\ adjusted' = overlap_adjust(ClippedEvents(merged), settings.overlap_rule)
    /\ pc' = "adjusted"
    /\ UNCHANGED <<cfg_file, mapping_file, sidebar, df_tickets, df_calls, df_schedule,
                   app_cfg, settings, mapping, events, schedule, merged, daily, heatmap>>

OverlapAdjustFails ==
    /\ pc = "clipped"
    /\ OverlapAdjustRaises(ClippedEvents(merged))
    /\ pc' = "stopped"
    /\ UNCHANGED <<cfg_file, mapping_file, sidebar, df_tickets, df_calls, df_schedule,
                   app_cfg, settings, mapping, events, schedule, merged, adjusted, daily, heatmap>>

\* compute_kpis lines 191-210: the daily summary and the heatmap
Aggregate ==
    /\ pc = "adjusted"
    /\ daily' = DailySummary(adjusted, schedule)
    /\ heatmap' = Heatmap(adjusted)
    /\ pc' = "done"
    /\ UNCHANGED <<cfg_file, mapping_file, sidebar, df_tickets, df_calls, df_schedule,
                   app_cfg, settings, mapping, events, schedule, merged, adjusted>>

Next ==
    \/ LoadAppConfig
    \/ LoadAppConfigFails
    \/ SidebarSettings
    \/ LoadCategoryMapping
    \/ LoadCategoryMappingFails
    \/ BuildEvents
    \/ ResolveSchedule
    \/ ResolveScheduleFails
    \/ ClipEvents
    \/ OverlapAdjust
    \/ OverlapAdjustFails
    \/ Aggregate

----------------------------------------------------------------------------
(* The inputs of a run: the files on disk, the uploads, the sidebar *)

sBug == <<"B", "u", "g">>
sbug == <<"b", "u", "g">>
sBUG == <<"B", "U", "G">>
sNit == <<"N", "i", "t">>
sLogin == <<"L", "o", "g", "i", "n">>
slogin == <<"l", "o", "g", "i", "n">>
sGnu == <<"g", "n", "u">>

RawCategories == {sBug, sbug, sBUG, sNit, sLogin, slogin, sGnu, Other, NoCategory}

\* Mapping tables.  No two canonical names list synonyms that are equal
\* case-insensitively.
TableFull ==
    << [canonical |-> sBug, variants |-> <<sBUG, sNit>>],
       [canonical |-> sLogin, variants |-> <<slogin>>],
       [canonical |-> Other, variants |-> <<>>] >>
TableBare ==
    << [canonical |-> sBug, variants |-> <<>>],
       [canonical |-> sLogin, variants |-> <<sNit>>] >>
TableOnlyOther == << [canonical |-> Other, variants |-> <<>>] >>
MappingTables == {TableFull, TableBare, TableOnlyOther}

OkFile(t) == [status |-> "ok", table |-> t]
BadFile(st) == [status |-> st, table |-> <<>>]
FileStatus == {"ok", "missing", "malformed"}

Row(a, s, e, c, t) == [agent |-> a, start_ts |-> s, end_ts |-> e, category |-> c, team |-> t]

NoUpload == [uploaded |-> FALSE, has_team |-> FALSE, rows |-> <<>>]
EmptyUpload == [uploaded |-> TRUE, has_team |-> TRUE, rows |-> <<>>]

SidebarOf(s, e, r) == [default_start |-> s, default_end |-> e, overlap_rule |-> r]
SidebarDefaults == {SidebarOf(DefaultShiftStart, DefaultShiftEnd, r) : r \in Rules}
SidebarAny == {SidebarOf(s, e, r) : s \in TimesOfDay, e \in TimesOfDay, r \in Rules}

\* all sequences of length 0..n over S
SeqsUpTo(S, n) == UNION {[1 .. k -> S] : k \in 0 .. n}

\* One schedule row per pair of `pairs` (a sequence of <<agent, date>>)
UploadOf(pairs, s, e, has_team, t) ==
    [uploaded |-> TRUE, has_team |-> has_team,
     rows |-> [i \in DOMAIN pairs |->
                 [agent |-> pairs[i][1], date |-> pairs[i][2],
                  shift_start |-> s, shift_end |-> e, team |-> t]]]

\* Runs in which a configuration file is missing or malformed, a timestamp
\* cell does not parse, or no event is left.
BaseTickets ==
    {<<>>, <<Row("A1", 1, 2, sbug, "T1")>>,
     <<Row("A1", Unparseable, 2, sbug, "T1"), Row("A2", 0, 1, sNit, "T2")>>}

InitBase ==
    \/ \E cfg \in FileStatus,
          mf \in {OkFile(TableFull), BadFile("missing"), BadFile("malformed")},
          sb \in SidebarDefaults, t \in BaseTickets :
            InitWith(cfg, mf, sb, t, <<>>, NoUpload)
    \/ \E sb \in SidebarDefaults :
            InitWith("ok", OkFile(TableFull), sb, <<>>, <<>>,
                     UploadOf(<<<<"A1", 0>>>>, DefaultShiftStart, DefaultShiftEnd, TRUE, "T1"))

\* Categories: every raw category against every mapping table.
InitCategories ==
    \E tbl \in MappingTables,
       tc \in SeqsUpTo(RawCategories, MaxRows) \ {<<>>},
       cc \in SeqsUpTo(RawCategories, 1) :
        InitWith("ok", OkFile(tbl),
                 SidebarOf(DefaultShiftStart, DefaultShiftEnd, "split_time"),
                 [i \in DOMAIN tc |-> Row("A1", 1, 2, tc[i], "T1")],
                 [i \in DOMAIN cc |-> Row("A1", 0, 1, cc[i], "T1")], NoUpload)

\* Overlaps: up to MaxEvents events of one agent with any start and end in
\* the first day (an end before the start included), in order of start.
DayTicks == 0 .. DayLen
IntervalOrder ==
    [k \in 1 .. (Cardinality(DayTicks) * Cardinality(DayTicks)) |->
        <<(k - 1) \div Cardinality(DayTicks), (k - 1) % Cardinality(DayTicks)>>]

OverlapEventSeqs ==
    {f \in SeqsUpTo(DOMAIN IntervalOrder, MaxEvents) :
        \A i \in 1 .. (Len(f) - 1) : f[i] <= f[i + 1]}

InitOverlaps ==
    \E sb \in SidebarDefaults, f \in OverlapEventSeqs \ {<<>>} :
        InitWith("ok", OkFile(TableFull), sb,
                 [i \in DOMAIN f |->
                    Row("A1", IntervalOrder[f[i]][1], IntervalOrder[f[i]][2], sbug, "T1")],
                 <<>>, NoUpload)

\* Teams, agents and dates: up to MaxRows events, each of one tick in the
\* middle of its day, the first a ticket and the rest calls.
DayRows ==
    {Row(a, d * DayLen + 1, d * DayLen + 2, sbug, t) :
        a \in Agents, d \in Dates, t \in Teams \cup {NoTeam}}

DayRowSeqs == SeqsUpTo(DayRows, MaxRows) \ {<<>>}

InitDefaultSchedules ==
    \/ \E sb \in SidebarAny, r \in DayRowSeqs :
        InitWith("ok", OkFile(TableFull), sb, SubSeq(r, 1, 1), SubSeq(r, 2, Len(r)), NoUpload)
    \/ \E sb \in SidebarDefaults, r \in DayRowSeqs :
        InitWith("ok", OkFile(TableFull), sb, SubSeq(r, 1, 1), SubSeq(r, 2, Len(r)), EmptyUpload)

\* Uploaded schedules: a window for some (agent, date) pairs only, with or
\* without a team column, of positive or zero length; the events have team
\* T1 or none.
UploadedSchedules ==
    {UploadOf(pairs, se[1], se[2], tm[1], tm[2]) :
        pairs \in {<<<<"A1", 0>>>>, <<<<"A1", 0>>, <<"A1", 1>>>>,
                   <<<<"A1", 0>>, <<"A2", 0>>>>,
                   <<<<"A1", 0>>, <<"A1", 1>>, <<"A2", 0>>, <<"A2", 1>>>>},
        se \in {<<0, DayLen - 1>>, <<1, 1>>},
        tm \in {<<FALSE, NoTeam>>, <<TRUE, "T1">>, <<TRUE, "T2">>}}

UploadRowSeqs ==
    {r \in DayRowSeqs : \A i \in DOMAIN r : r[i].team \in {"T1", NoTeam}}

InitUploads ==
    \E sb \in SidebarDefaults, r \in UploadRowSeqs, up \in UploadedSchedules :
        InitWith("ok", OkFile(TableFull), sb, SubSeq(r, 1, 1), SubSeq(r, 2, Len(r)), up)

Init == InitBase \/ InitCategories \/ InitOverlaps \/ InitDefaultSchedules \/ InitUploads
InitCat == InitBase \/ InitCategories
InitOverlap == InitBase \/ InitOverlaps
InitDefault == InitBase \/ InitDefaultSchedules
InitUpload == InitBase \/ InitUploads

Spec == Init /\ [][Next]_vars
SpecCat == InitCat /\ [][Next]_vars
SpecOverlap == InitOverlap /\ [][Next]_vars
SpecDefault == InitDefault /\ [][Next]_vars
SpecUpload == InitUpload /\ [][Next]_vars

----------------------------------------------------------------------------
(* Properties *)

Clipped == pc \in {"clipped", "adjusted", "done"}
Adjusted == pc \in {"adjusted", "done"}

\* the rows of overlap_adjust's result for one agent, in the group's order
AdjustedOf(a) ==
    LET Mine(e) == e.agent = a
    IN  SelectSeq(adjusted, Mine)

TotalProductive(adj, a) ==
    SumSeq([i \in DOMAIN adj |-> IF adj[i].agent = a THEN adj[i].productive_seconds ELSE 0])

\* two events share time of positive length
Overlapping(e, f) ==
    /\ e.start_ts < e.end_ts /\ f.start_ts < f.end_ts
    /\ e.start_ts < f.end_ts /\ f.start_ts < e.end_ts

NoOverlap(evs, a) ==
    \A i, j \in DOMAIN evs :
        (i < j /\ evs[i].agent = a /\ evs[j].agent = a) => ~Overlapping(evs[i], evs[j])

HasWindow(e) ==
    \E i \in DOMAIN schedule : schedule[i].agent = e.agent /\ schedule[i].date = e.date

\* C1: under split_time, for every agent and every segment between two
\* consecutive boundary timestamps of the agent's events, the shares credited
\* for the segment sum to the segment's length when some event is active in it
\* (start < segment end and end > segment start) and to zero when none is;
\* each event's productive_seconds is the sum of its shares.
C1_SplitTimeConservesSegments ==
    (Adjusted /\ settings.overlap_rule = "split_time") =>
        \A a \in Agents :
            LET g == AdjustedOf(a)
                b == Boundaries(g)
                SegShare(k, i) == Share(g, k, b[i], b[i + 1])
            IN  /\ \A i \in 1 .. (Len(b) - 1) :
                      SumSeq([k \in DOMAIN g |-> SegShare(k, i)])
                        = IF \E k \in DOMAIN g :
                                g[k].start_ts < b[i + 1] /\ g[k].end_ts > b[i]
                          THEN (b[i + 1] - b[i]) * Scale
                          ELSE 0
                /\ \A k \in DOMAIN g :
                      g[k].productive_seconds
                        = SumSeq([i \in 1 .. (Len(b) - 1) |-> SegShare(k, i)])

\* Two events of one agent, 0-2 and 1-3 (09:00-10:00 and 09:30-10:30 with
\* ticks of half an hour): each is credited a tick and a half (2700 s), the
\* agent three ticks (5400 s).
C1_Witness ==
    /\ Adjusted /\ settings.overlap_rule = "split_time"
    /\ Len(adjusted) = 2
    /\ adjusted[1].agent = adjusted[2].agent
    /\ adjusted[1].start_ts = 0 /\ adjusted[1].end_ts = 2
    /\ adjusted[2].start_ts = 1 /\ adjusted[2].end_ts = 3
    /\ 2 * adjusted[1].productive_seconds = 3 * Scale
    /\ 2 * adjusted[2].productive_seconds = 3 * Scale

\* C2: for the same clipped events, every agent's total productive_seconds
\* under count_full is at least the total under split_time, and the two are
\* equal when none of the agent's events overlap.
C2_CountFullAtLeastSplitTime ==
    Clipped =>
        \A a \in Agents :
            LET ce == ClippedEvents(merged)
                full == TotalProductive(overlap_adjust(ce, "count_full"), a)
                split == TotalProductive(overlap_adjust(ce, "split_time"), a)
            IN  /\ full >= split
                /\ NoOverlap(ce, a) => full = split

\* C3: every daily row with scheduled_seconds > 0, under split_time (and
\* under count_full when the agent's events do not overlap), has
\* productive_seconds <= scheduled_seconds and 0 <= utilization_pct <= 100.
C3_ProductiveWithinSchedule ==
    pc = "done" =>
        \A r \in daily :
            ( /\ ~r.scheduled_seconds.nan /\ r.scheduled_seconds.val > 0
              /\ \/ settings.overlap_rule = "split_time"
                 \/ NoOverlap(adjusted, r.agent) )
            => /\ r.productive_seconds <= r.scheduled_seconds.val
               /\ ~r.utilization_pct.nan
               /\ 0 <= r.utilization_pct.num
               /\ r.utilization_pct.num <= 100 * r.utilization_pct.den

RetainedRows ==
    LET Kept(r) == r.agent # NoAgent /\ ToDatetime(r.start_ts) # NaT /\ ToDatetime(r.end_ts) # NaT
    IN  SelectSeq(df_tickets \o df_calls, Kept)

\* C5: category_mapped is a canonical name of the mapping table or "Other";
\* a raw value equal, case-insensitively, to a listed synonym maps to that
\* synonym's canonical name; a raw value (a missing one included) that
\* matches no synonym and is not itself a canonical name maps to "Other".
C5_CategoryMapping ==
    pc \in {"events", "scheduled", "clipped", "adjusted", "done"} =>
        /\ Len(events) = Len(RetainedRows)
        /\ \A i \in DOMAIN events :
            LET raw == RetainedRows[i].category
                cm == events[i].category_mapped
                Synonym(k, j) == raw # NoCategory /\ Lower(raw) = Lower(mapping[k].variants[j])
            IN  /\ cm \in MappingKeys(mapping) \cup {Other}
                /\ \A k \in DOMAIN mapping : \A j \in DOMAIN mapping[k].variants :
                      Synonym(k, j) => cm = mapping[k].canonical
                /\ ( /\ \A k \in DOMAIN mapping : \A j \in DOMAIN mapping[k].variants :
                            ~Synonym(k, j)
                     /\ raw \notin MappingKeys(mapping) )
                   => cm = Other

\* "bug" maps to Bug through the listed synonym "BUG", an unknown label and
\* a missing one map to Other
C5_Witness ==
    /\ pc = "events" /\ mapping = TableFull
    /\ Len(events) = 3
    /\ RetainedRows[1].category = sbug /\ events[1].category_mapped = sBug
    /\ RetainedRows[2].category = sGnu /\ events[2].category_mapped = Other
    /\ RetainedRows[3].category = NoCategory /\ events[3].category_mapped = Other

\* C6: every daily row has idle_seconds = max(scheduled - productive, 0);
\* utilization_pct = 100 * productive / scheduled when scheduled > 0; when
\* scheduled_seconds is 0 utilization_pct is the NaN sentinel, not 0, and
\* the run still ends with its tables.
C6_IdleAndUtilization ==
    pc = "done" =>
        \A r \in daily :
            LET sch == r.scheduled_seconds
                prod == r.productive_seconds
                util == r.utilization_pct
            IN  /\ ~sch.nan =>
                      /\ ~r.idle_seconds.nan
                      /\ r.idle_seconds.val = (IF sch.val - prod > 0 THEN sch.val - prod ELSE 0)
                /\ sch.nan => r.idle_seconds.nan
                /\ (~sch.nan /\ sch.val > 0) =>
                      /\ ~util.nan /\ util.den > 0
                      /\ util.num * sch.val = 100 * prod * util.den
                /\ (~sch.nan /\ sch.val = 0) => util.nan

\* a run that ends with the row of a zero-length shift that has productive
\* time: its utilization is NaN and its idle time 0
C6_Witness ==
    /\ pc = "done"
    /\ \E r \in daily :
          /\ ~r.scheduled_seconds.nan /\ r.scheduled_seconds.val = 0
          /\ r.productive_seconds > 0 /\ r.utilization_pct.nan
          /\ r.idle_seconds = Num(0)

\* C7: a missing or malformed category-mapping file does not abort the run:
\* the mapping falls back to {"Other": []}, every event is categorized
\* "Other", and compute_kpis still returns its tables.
C7_MappingFileFallback ==
    (mapping_file.status # "ok" /\ RetainedRows # <<>>) =>
        /\ pc # "stopped"
        /\ pc \in {"mapped", "events", "scheduled", "clipped", "adjusted", "done"} =>
              mapping = TableOnlyOther
        /\ \A i \in DOMAIN events : events[i].category_mapped = Other

\* The second half of C7: an unreadable app config does not stop the
\* application.
C7_AppConfigFallback == cfg_file # "ok" => pc # "crashed"

\* C8: an event whose (agent, date) pair has no window has a clipped
\* duration_seconds of 0 and a productive_seconds of 0, under either rule.
C8_NoWindowClipsToZero ==
    /\ Clipped =>
          \A i \in DOMAIN merged :
              ~HasWindow(merged[i]) => merged[i].duration_seconds = 0
    /\ Adjusted =>
          \A i \in DOMAIN adjusted :
              ~HasWindow(adjusted[i]) => adjusted[i].productive_seconds = 0

\* C9: every daily row whose (agent, date) pair has a window carries that
\* window's length as scheduled_seconds, whatever the team values.
C9_ScheduledSecondsOfWindow ==
    pc = "done" =>
        \A r \in daily : \A i \in DOMAIN schedule :
            (schedule[i].agent = r.agent /\ schedule[i].date = r.date) =>
                r.scheduled_seconds = Num(ScheduledSeconds(schedule[i]))

\* the (agent, date) pairs, agents and dates observed among the retained events
ObservedPairs == {<<events[i].agent, DateOf(events[i].start_ts)>> : i \in DOMAIN events}
ObservedAgents == {events[i].agent : i \in DOMAIN events}
ObservedDates == {DateOf(events[i].start_ts) : i \in DOMAIN events}

Scheduled == pc \in {"scheduled", "clipped", "adjusted", "done"}

\* each row of a synthesized schedule uses the default times and the team
\* of the agent's first event
DefaultRowsWellFormed ==
    \A i \in DOMAIN schedule :
        /\ schedule[i].shift_start = schedule[i].date * DayLen + settings.default_shift_start
        /\ schedule[i].shift_end = schedule[i].date * DayLen + settings.default_shift_end
        /\ \E k \in DOMAIN events :
              /\ events[k].agent = schedule[i].agent
              /\ events[k].team = schedule[i].team
              /\ \A j \in 1 .. (k - 1) : events[j].agent # schedule[i].agent

RowsOfPair(a, d) == {i \in DOMAIN schedule : schedule[i].agent = a /\ schedule[i].date = d}

\* C10 as stated: the synthesized schedule has exactly one row for each
\* observed (agent, date) pair and no row for a pair that no event has.
C10_OneRowPerObservedPair ==
    (Scheduled /\ UsesDefaultSchedule(df_schedule)) =>
        /\ \A p \in ObservedPairs : Cardinality(RowsOfPair(p[1], p[2])) = 1
        /\ \A i \in DOMAIN schedule : <<schedule[i].agent, schedule[i].date>> \in ObservedPairs
        /\ DefaultRowsWellFormed

\* C10 as amended: the synthesized schedule has exactly one row for each
\* pair of an observed agent and an observed date, and no other row; each
\* row uses the default times and the agent's first-observed team.
C10_OneRowPerAgentAndDate ==
    (Scheduled /\ UsesDefaultSchedule(df_schedule)) =>
        /\ \A a \in ObservedAgents : \A d \in ObservedDates :
              Cardinality(RowsOfPair(a, d)) = 1
        /\ \A i \in DOMAIN schedule :
              schedule[i].agent \in ObservedAgents /\ schedule[i].date \in ObservedDates
        /\ DefaultRowsWellFormed

\* agent A1 only on the first day with team T2 then T1, agent A2 only on the
\* second day: the table has the four rows of the two agents and two dates
C10_Witness ==
    /\ Scheduled /\ UsesDefaultSchedule(df_schedule)
    /\ ObservedPairs = {<<"A1", 0>>, <<"A2", 1>>}
    /\ Len(schedule) = 4
    /\ \E i \in DOMAIN schedule : schedule[i].agent = "A1" /\ schedule[i].date = 1

\* the start of the part of event e that lies inside its shift window:
\* max(start_ts, shift_start); an event without a window keeps its start
ClippedStartOf(e) ==
    IF HasWindow(e)
    THEN LET w == CHOOSE i \in DOMAIN schedule :
                      schedule[i].agent = e.agent /\ schedule[i].date = e.date
         IN  Max(e.start_ts, schedule[w].shift_start)
    ELSE e.start_ts

BeginsBeforeShift(e) == HasWindow(e) /\ ClippedStartOf(e) > e.start_ts

\* the productive seconds of the events whose clipped start falls in bucket
\* (d, h, t)
SecondsByClippedHour(d, h, t) ==
    SumSeq([i \in DOMAIN adjusted |->
        IF /\ adjusted[i].date = d /\ adjusted[i].team = t
           /\ HourOf(ClippedStartOf(adjusted[i])) = h
        THEN adjusted[i].productive_seconds ELSE 0])

\* C11: in the Heatmap, every event's productive_seconds is added to the
\* (date, hour, team) bucket whose hour is the hour of day of the event's
\* clipped start max(start_ts, shift_start): for every event there is a
\* heatmap row for its date, the hour of its clipped start and its team, and
\* the row's productive_seconds is the sum over the events whose clipped start
\* falls in that bucket; so an event that begins before its shift window is
\* counted in the hour where the shift starts.
\* Violated: compute_kpis takes the hour from the raw start_ts column
\* (compute.py line 209), so such an event is counted in the hour of its
\* raw start.
C11_HeatmapHourOfClippedStart ==
    pc = "done" =>
        \A i \in DOMAIN adjusted :
            LET e == adjusted[i]
                h == HourOf(ClippedStartOf(e))
            IN  \E r \in heatmap :
                    /\ r.date = e.date /\ r.hour = h /\ r.team = e.team
                    /\ r.productive_seconds = SecondsByClippedHour(e.date, h, e.team)

\* what the code does instead: every event is counted in the bucket of the
\* hour of its raw start_ts, also when it begins before its shift window
C11_HeatmapHourOfRawStart ==
    pc = "done" =>
        \A i \in DOMAIN adjusted :
            LET e == adjusted[i]
                key == <<e.date, HourOf(e.start_ts), e.team>>
            IN  \E r \in heatmap :
                    /\ r.date = key[1] /\ r.hour = key[2] /\ r.team = key[3]
                    /\ r.productive_seconds = HeatmapSecondsOfKey(adjusted, key)

C11_BeginsBeforeShiftReached ==
    /\ pc = "done"
    /\ \E i \in DOMAIN adjusted :
           BeginsBeforeShift(adjusted[i]) /\ adjusted[i].productive_seconds > 0

====
